---- MODULE Spec2Model ----
(***************************************************************************)
(* AfterShip tracking client (scripts/aftership-client.ts): the cache-aside *)
(* read operations, the invalidating mutations, the delay filter and the   *)
(* carrier resolution fallback, the constructor and the get-tracking and   *)
(* create-tracking commands.                                               *)
(*                                                                         *)
(* batch is what the remote service holds; the requests of an operation    *)
(* are answered from it.                                                   *)
(*                                                                         *)
(* Time is counted in minutes.  A cached value is a record                 *)
(* [ver, data]: ver is the version of the remote data the response was     *)
(* computed from (every successful mutation produces a new version) and    *)
(* data is what the operation derives from the response.                   *)
(* sdk tells whether the constructor has created the SDK client.           *)
(* flight follows one operation request by request: the operation, whether *)
(* it is about to issue its k-th request or awaits the response, and the   *)
(* requests issued and in flight.                                          *)
(* bypassRequested, hist and last record what the caller asked for and     *)
(* what it observed; the client reads none of them.                        *)
(***************************************************************************)
EXTENDS Integers, Sequences, FiniteSets, TLC

VARIABLES sdk, cache, now, cacheDisabled, bypassRequested, ver, batch, hist,
          last, steps, flight

vars ==
  <<sdk, cache, now, cacheDisabled, bypassRequested, ver, batch, hist, last,
    steps, flight>>

(* ------------------------------ bounds --------------------------------- *)

\* number of client calls and clock advances in one behaviour
MaxSteps == 3

\* number of records in the remote batch examined by the delay filter
MaxBatch == 1

\* number of records the remote service holds when the active shipments,
\* the trackings of an order or the recent deliveries are read
MaxRemote == 3

(* --------------------------- TTL constants ----------------------------- *)

FIVE_MINUTES == 5

FIFTEEN_MINUTES == 15

HOUR == 60

DAY == 1440

\* milliseconds per day of findDelayed, in minutes
DayLen == 24 * 60

(* ------------------------------ helpers -------------------------------- *)

Undefined == "<undefined>"

\* a date field that is absent (null / undefined / empty) in the response
NoDate == -1

NoValue == [ver |-> -1, data |-> <<>>]

NoHist == [has |-> FALSE, at |-> 0, value |-> NoValue, muts |-> {}]

\* no operation is running
NoFlight ==
  [op |-> "idle", phase |-> "idle", k |-> 0, issued |-> 0, inFlight |-> 0,
   outcome |-> "none"]

\* the record of the last call, before any call
NoCall ==
  [kind |-> "none", op |-> "none", call |-> <<>>, bypass |-> FALSE,
   raised |-> FALSE, reqs |-> 0, result |-> NoValue, prior |-> NoHist,
   at |-> 0, log |-> <<>>, requests |-> <<>>, cmd |-> <<>>, error |-> ""]

Put(f, k, v) == [x \in DOMAIN f \cup {k} |-> IF x = k THEN v ELSE f[x]]

Drop(f, ks) == [x \in DOMAIN f \ ks |-> f[x]]

IsPrefix(p, s) == Len(p) <= Len(s) /\ SubSeq(s, 1, Len(p)) = p

\* the text of the operation tags and of the two invalidation prefixes
Chars(s) ==
  CASE s = "trackings" -> <<"t","r","a","c","k","i","n","g","s">>
    [] s = "tracking:id" -> <<"t","r","a","c","k","i","n","g",":","i","d">>
    [] s = "tracking:number" ->
         <<"t","r","a","c","k","i","n","g",":","n","u","m","b","e","r">>
    [] s = "tracking" -> <<"t","r","a","c","k","i","n","g">>
    [] s = "order" -> <<"o","r","d","e","r">>
    [] s = "exceptions" -> <<"e","x","c","e","p","t","i","o","n","s">>
    [] s = "delayed" -> <<"d","e","l","a","y","e","d">>
    [] s = "active" -> <<"a","c","t","i","v","e">>
    [] s = "delivered" -> <<"d","e","l","i","v","e","r","e","d">>
    [] s = "couriers" -> <<"c","o","u","r","i","e","r","s">>
    [] s = "detect" -> <<"d","e","t","e","c","t">>

\* the text of a token of a key as a case-insensitive pattern reads it:
\* tags, parameter names and order ids letter by letter, any other value as
\* one symbol that no pattern mentions
TokenText(s) ==
  CASE s \in {"trackings", "tracking:id", "tracking:number", "order",
              "exceptions", "delayed", "active", "delivered", "couriers",
              "detect"} -> Chars(s)
    [] s = "orderId" -> <<"o","r","d","e","r","i","d">>
    [] s = "order_id" -> <<"o","r","d","e","r","_","i","d">>
    [] s = "12" -> <<"1","2">>
    [] s = "123" -> <<"1","2","3">>
    [] s = "7" -> <<"7">>
    [] OTHER -> <<s>>

\* the places from which on the text p occurs in the text s
Occurs(p, s, from) ==
  {i \in from..(Len(s) - Len(p) + 1) : SubSeq(s, i, i + Len(p) - 1) = p}

(* ------------------- the shared cache (plugin-cache) ------------------- *)

\* parameter names in sorted order
ParamOrder ==
  <<"all", "created_at_max", "created_at_min", "days", "id", "limit",
    "number", "orderId", "order_id", "slug", "tag", "trackingNumber">>

RECURSIVE KeyParams(_, _)
KeyParams(params, i) ==
  IF i > Len(ParamOrder) THEN <<>>
  ELSE LET hit == {j \in 1..Len(params) :
                     params[j][1] = ParamOrder[i] /\ params[j][2] # Undefined}
       IN (IF hit = {} THEN <<>>
           ELSE LET j == CHOOSE j \in hit : TRUE
                IN <<params[j][1], params[j][2]>>)
          \o KeyParams(params, i + 1)

\* operation tag followed by the defined parameters, sorted by name
createCacheKey(tag, params) == <<tag>> \o KeyParams(params, 1)

\* the anchored patterns /^tracking/ and /^order/ applied to a key
MatchesPrefix(key, prefix) == IsPrefix(Chars(prefix), Chars(key[1]))

\* the key as the string a pattern is tested against: its tokens in order,
\* with a separator between them
RECURSIVE KeyText(_)
KeyText(key) ==
  IF key = <<>> THEN <<>>
  ELSE TokenText(Head(key))
         \o (IF Len(key) > 1 THEN <<":">> ELSE <<>>) \o KeyText(Tail(key))

invalidate(c, key) == Drop(c, {key})

invalidatePattern(c, prefix) ==
  Drop(c, {k \in DOMAIN c : MatchesPrefix(k, prefix)})

\* getOrFetch(key, fetcher, { ttl, bypassCache }) at time t on the cache c.
\* fetched is the outcome of running the fetcher: [ok, value, reqs,
\* requests], requests being the SDK requests it issues in order.  An
\* unexpired entry is returned without running the fetcher; otherwise the
\* fetcher runs, its error propagates and its value is stored for ttl
\* minutes.  Under bypassCache the cache is neither read nor written.
getOrFetch(c, key, ttl, bypassCache, t, fetched) ==
  IF ~bypassCache /\ key \in DOMAIN c /\ t < c[key].expiresAt
  THEN [cache |-> c, raised |-> FALSE, result |-> c[key].value, reqs |-> 0,
        requests |-> <<>>]
  ELSE IF fetched.ok
       THEN [cache |-> IF bypassCache THEN c
                       ELSE Put(c, key, [value |-> fetched.value,
                                         expiresAt |-> t + ttl]),
             raised |-> FALSE, result |-> fetched.value,
             reqs |-> fetched.reqs, requests |-> fetched.requests]
       ELSE [cache |-> c, raised |-> TRUE, result |-> NoValue,
             reqs |-> fetched.reqs, requests |-> fetched.requests]

(* --------------------------- delay filter ------------------------------ *)

\* Carrier-aware delay thresholds (in days)
DELAY_THRESHOLDS ==
  ("ups" :> 1) @@ ("royal-mail" :> 3) @@ ("royalmail" :> 3) @@
  ("carrier-freight" :> 2) @@ ("default" :> 2)

\* String.prototype.toLowerCase on the carrier slugs of the model
toLowerCase(s) ==
  CASE s = "UPS" -> "ups"
    [] s = "Royal-Mail" -> "royal-mail"
    [] s = "RoyalMail" -> "royalmail"
    [] s = "DHL" -> "dhl"
    [] OTHER -> s

expectedDate_promisedFirst(t) ==
  IF t.latest_estimated_delivery # NoDate THEN t.latest_estimated_delivery
  ELSE IF t.order_promised_delivery_date # NoDate
       THEN t.order_promised_delivery_date
       ELSE t.courier_estimated_delivery_date

\* t.latest_estimated_delivery?.datetime || t.courier_estimated_delivery_date
\* ?.datetime || t.order_promised_delivery_date
expectedDate(t) ==
  IF t.latest_estimated_delivery # NoDate THEN t.latest_estimated_delivery
  ELSE IF t.courier_estimated_delivery_date # NoDate
       THEN t.courier_estimated_delivery_date
       ELSE t.order_promised_delivery_date

\* names every object inherits: looking one up in the table yields a
\* function or an object, which is truthy and compares as NaN
InheritedNames == {"constructor", "toString", "valueOf", "hasOwnProperty"}

\* DELAY_THRESHOLDS[slug] || DELAY_THRESHOLDS["default"]: a missing entry and
\* the number 0 are both falsy
threshold(table, slug) ==
  LET own == IF slug \in DOMAIN table THEN table[slug] ELSE 0
  IN IF own # 0 THEN own ELSE table["default"]

\* whether the looked-up threshold is a number at all
thresholdIsNumber(table, slug) ==
  slug \in DOMAIN table \/ slug \notin InheritedNames

\* Math.floor((now - expected) / one day)
daysDiff(t, expected) == (t - expected) \div DayLen

isDelayed_strictlyLater(t, n, table) ==
  IF t.tag = "Delivered" \/ t.tag = "Expired" THEN FALSE
  ELSE IF expectedDate(t) = NoDate THEN FALSE
  ELSE IF ~thresholdIsNumber(table, toLowerCase(t.slug)) THEN FALSE
  ELSE daysDiff(n, expectedDate(t)) > threshold(table, toLowerCase(t.slug))

\* the filter callback of findDelayed
isDelayed(t, n, table) ==
  IF t.tag = "Delivered" \/ t.tag = "Expired" THEN FALSE
  ELSE IF expectedDate(t) = NoDate THEN FALSE
  ELSE IF ~thresholdIsNumber(table, toLowerCase(t.slug)) THEN FALSE
  ELSE daysDiff(n, expectedDate(t)) >= threshold(table, toLowerCase(t.slug))

delayedFilter(trackings, n, table) ==
  SelectSeq(trackings, LAMBDA t : isDelayed(t, n, table))

(* ------------------------- read operations ----------------------------- *)

\* a numeric option (limit, days): 0 stands for an option left out
NumKey(n) == IF n = 0 THEN Undefined ELSE ToString(n)

\* the last response a call stored, as its caller saw it
Observe(h, call, r) ==
  IF ~bypassRequested /\ ~r.raised /\ r.reqs > 0
  THEN Put(h, call, [has |-> TRUE, at |-> now, value |-> r.result,
                     muts |-> {}])
  ELSE h

PriorOf(call) == IF call \in DOMAIN hist THEN hist[call] ELSE NoHist

\* one cached read: the call's identity and the outcome r of its getOrFetch.
\* hist remembers, per call, the last response stored and the mutations made
\* since.
\* cmd is the CLI command line the call was made for, <<>> for a direct call
ReadStepFor(cmd, op, args, r) ==
  /\ sdk
  /\ steps < MaxSteps
  /\ steps' = steps + 1
  /\ cache' = r.cache
  /\ hist' = Observe(hist, <<op>> \o args, r)
  /\ last' = [kind |-> "read", op |-> op, call |-> <<op>> \o args,
              bypass |-> bypassRequested, raised |-> r.raised,
              reqs |-> r.reqs, result |-> r.result,
              prior |-> PriorOf(<<op>> \o args), at |-> now, log |-> <<>>,
              requests |-> r.requests, cmd |-> cmd, error |-> ""]
  /\ UNCHANGED <<flight, sdk, now, cacheDisabled, bypassRequested, ver, batch>>

ReadStep(op, args, r) == ReadStepFor(<<>>, op, args, r)

\* one SDK request: the method called, the query parameter that tells it
\* from the operation's other requests, whether it raised
Request(call, arg, raised) == [call |-> call, arg |-> arg, raised |-> raised]

\* a request that raises is issued a second time
OneRequest_retriesOnce(ok, data) ==
  [ok |-> ok, value |-> [ver |-> ver, data |-> data],
   reqs |-> IF ok THEN 1 ELSE 2,
   requests |-> IF ok THEN <<Request("sdk", "", FALSE)>>
                ELSE <<Request("sdk", "", TRUE), Request("sdk", "", TRUE)>>]

\* a fetcher that issues one request: it fails or yields data
OneRequest(ok, data) ==
  [ok |-> ok, value |-> [ver |-> ver, data |-> data], reqs |-> 1,
   requests |-> <<Request("sdk", "", ~ok)>>]

listTrackings(options, ok) ==
  ReadStep("listTrackings",
           <<options.tag, options.slug, options.order_id,
             options.created_at_min, options.created_at_max,
             ToString(options.limit)>>,
           getOrFetch(cache, createCacheKey("trackings",
             << <<"tag", options.tag>>, <<"slug", options.slug>>,
                <<"order_id", options.order_id>>,
                <<"created_at_min", options.created_at_min>>,
                <<"created_at_max", options.created_at_max>>,
                <<"limit", NumKey(options.limit)>> >>),
           FIVE_MINUTES, cacheDisabled, now, OneRequest(ok, <<>>)))

getTrackingByIdFor(cmd, id, ok) ==
  ReadStepFor(cmd, "getTrackingById", <<id>>,
              getOrFetch(cache,
                         createCacheKey("tracking:id", << <<"id", id>> >>),
              FIVE_MINUTES, cacheDisabled, now, OneRequest(ok, <<id>>)))

getTrackingById(id, ok) == getTrackingByIdFor(<<>>, id, ok)

\* resp: "fail" (the SDK raises), "none" (no tracking: the fetcher raises) or
\* "found"
getTrackingByNumberFetch(trackingNumber, slug, resp) ==
  [ok |-> resp = "found",
   value |-> [ver |-> ver, data |-> <<trackingNumber, slug>>], reqs |-> 1,
   requests |-> <<Request("sdk", "", resp = "fail")>>]

\* the key is built from the tracking number alone
getTrackingByNumberIn_numberOnly(c, trackingNumber, slug, resp) ==
  getOrFetch(c, createCacheKey("tracking:number",
               << <<"number", trackingNumber>> >>),
             FIVE_MINUTES, cacheDisabled, now,
             getTrackingByNumberFetch(trackingNumber, slug, resp))

\* the method's getOrFetch, on the cache c an enclosing operation has reached
getTrackingByNumberIn(c, trackingNumber, slug, resp) ==
  getOrFetch(c, createCacheKey("tracking:number",
               << <<"number", trackingNumber>>, <<"slug", slug>> >>),
             FIVE_MINUTES, cacheDisabled, now,
             getTrackingByNumberFetch(trackingNumber, slug, resp))

getTrackingByNumberFor(cmd, trackingNumber, slug, resp) ==
  ReadStepFor(cmd, "getTrackingByNumber", <<trackingNumber, slug>>,
              getTrackingByNumberIn(cache, trackingNumber, slug, resp))

getTrackingByNumber(trackingNumber, slug, resp) ==
  getTrackingByNumberFor(<<>>, trackingNumber, slug, resp)

\* what the remote service answers to getTrackings({ order_id }): the records
\* of batch with that order id
getTrackingsOfOrder(orderId) ==
  LET Matches(t) == t.order_id = orderId
  IN SelectSeq(batch, Matches)

\* what it answers to getTrackings({ keyword }): the records of batch with
\* the keyword in their text (their order id contains it)
getTrackingsByKeyword(keyword) ==
  LET Matches(t) == keyword \in t.words
  IN SelectSeq(batch, Matches)

\* the keyword request is issued whatever the order_id request returned
searchByOrderIdFetch_alwaysKeyword(orderId, failAt) ==
  LET trackings == getTrackingsOfOrder(orderId)
      first == Request("getTrackings", "order_id", failAt = 1)
      second == Request("getTrackings", "keyword", failAt = 2)
  IN IF failAt = 1
     THEN [ok |-> FALSE, value |-> NoValue, reqs |-> 1,
           requests |-> <<first>>]
     ELSE [ok |-> failAt # 2,
           value |-> [ver |-> ver,
                      data |-> IF trackings # <<>> THEN trackings
                               ELSE getTrackingsByKeyword(orderId)],
           reqs |-> 2, requests |-> <<first, second>>]

\* the fetcher of searchByOrderId; failAt: the request (1 or 2) that raises
\* if it is issued, 0 when none does
searchByOrderIdFetch(orderId, failAt) ==
  LET trackings == getTrackingsOfOrder(orderId)
      first == Request("getTrackings", "order_id", failAt = 1)
      second == Request("getTrackings", "keyword", failAt = 2)
  IN IF failAt = 1
     THEN [ok |-> FALSE, value |-> NoValue, reqs |-> 1,
           requests |-> <<first>>]
     ELSE IF Len(trackings) = 0
          THEN [ok |-> failAt # 2,
                value |-> [ver |-> ver,
                           data |-> getTrackingsByKeyword(orderId)],
                reqs |-> 2, requests |-> <<first, second>>]
          ELSE [ok |-> TRUE, value |-> [ver |-> ver, data |-> trackings],
                reqs |-> 1, requests |-> <<first>>]

searchByOrderId(orderId, failAt) ==
  ReadStep("searchByOrderId", <<orderId>>,
           getOrFetch(cache,
                      createCacheKey("order", << <<"orderId", orderId>> >>),
           FIVE_MINUTES, cacheDisabled, now,
           searchByOrderIdFetch(orderId, failAt)))

\* what the remote service answers to getTrackings({ tag, slug }): the
\* records of batch with that tag (and that slug, when one is given)
getTrackings(tag, slug) ==
  LET Matches(t) == t.tag = tag /\ (slug = Undefined \/ t.slug = slug)
  IN SelectSeq(batch, Matches)

DaysOrDefault(days) == IF days = 0 THEN 7 ELSE days

findExceptions_datedKey(options, ok) ==
  ReadStep("findExceptions",
           <<ToString(options.limit), ToString(options.days)>>,
           getOrFetch(cache, createCacheKey("exceptions",
             << <<"limit", NumKey(options.limit)>>,
                <<"created_at_min",
                  ToString(now - DaysOrDefault(options.days) * DayLen)>> >>),
           FIVE_MINUTES, cacheDisabled, now, OneRequest(ok, <<>>)))

findExceptions(options, ok) ==
  ReadStep("findExceptions",
           <<ToString(options.limit), ToString(options.days)>>,
           getOrFetch(cache, createCacheKey("exceptions",
             << <<"limit", NumKey(options.limit)>>,
                <<"days", ToString(DaysOrDefault(options.days))>> >>),
           FIVE_MINUTES, cacheDisabled, now, OneRequest(ok, <<>>)))

\* a days option, when given, is the threshold of every carrier
findDelayedIn_daysAsThreshold(c, options, ok) ==
  getOrFetch(c, createCacheKey("delayed",
                               << <<"days", NumKey(options.days)>> >>),
             FIVE_MINUTES, cacheDisabled, now,
             OneRequest(ok, delayedFilter(batch, now,
                              IF options.days = 0 THEN DELAY_THRESHOLDS
                              ELSE [s \in DOMAIN DELAY_THRESHOLDS |->
                                      options.days])))

\* the method's getOrFetch on the cache c: days is part of the key and of
\* nothing else
findDelayedIn(c, options, ok) ==
  getOrFetch(c, createCacheKey("delayed",
                               << <<"days", NumKey(options.days)>> >>),
             FIVE_MINUTES, cacheDisabled, now,
             OneRequest(ok, delayedFilter(batch, now, DELAY_THRESHOLDS)))

findDelayed(options, ok) ==
  ReadStep("findDelayed", <<ToString(options.days)>>,
           findDelayedIn(cache, options, ok))

\* the loop also asks for the shipments in Exception
activeTags_withException ==
  <<"Pending", "InfoReceived", "InTransit", "OutForDelivery", "AttemptFail",
    "AvailableForPickup", "Exception">>

activeTags ==
  <<"Pending", "InfoReceived", "InTransit", "OutForDelivery", "AttemptFail",
    "AvailableForPickup">>

\* allTrackings after the requests for the first n tags
RECURSIVE allTrackings(_, _)
allTrackings(slug, n) ==
  IF n = 0 THEN <<>>
  ELSE allTrackings(slug, n - 1) \o getTrackings(activeTags[n], slug)

\* every record is kept: no filter on seen ids
dedupeById_keepsAll(trackings, seen) == trackings

\* the filter over allTrackings with the set of ids seen so far
RECURSIVE dedupeById(_, _)
dedupeById(trackings, seen) ==
  IF trackings = <<>> THEN <<>>
  ELSE IF Head(trackings).id \in seen
       THEN dedupeById(Tail(trackings), seen)
       ELSE <<Head(trackings)>>
            \o dedupeById(Tail(trackings), seen \cup {Head(trackings).id})

\* failAt: the request (1..6) that raises, 0 when none does; the loop
\* stops at the request that raises
getActiveShipments(options, failAt) ==
  LET issued == IF failAt = 0 THEN Len(activeTags) ELSE failAt
  IN ReadStep("getActiveShipments",
              <<ToString(options.limit), options.slug>>,
              getOrFetch(cache, createCacheKey("active",
                << <<"limit", NumKey(options.limit)>>,
                   <<"slug", options.slug>> >>),
              FIVE_MINUTES, cacheDisabled, now,
              [ok |-> failAt = 0,
               value |-> [ver |-> ver,
                          data |-> dedupeById(
                                     allTrackings(options.slug,
                                                  Len(activeTags)), {})],
               reqs |-> issued,
               requests |-> [i \in 1..issued |->
                               Request("getTrackings", activeTags[i],
                                       i = failAt)]]))

\* every delivered tracking is kept
deliveredWithin_everything(trackings, deliveredAfter) == trackings

\* the filter of getRecentDeliveries: a tracking without a delivery date is
\* kept, one with a date is kept when the date is not before deliveredAfter
deliveredWithin(trackings, deliveredAfter) ==
  LET Keep(t) == \/ t.shipment_delivery_date = NoDate
                 \/ t.shipment_delivery_date >= deliveredAfter
  IN SelectSeq(trackings, Keep)

\* deliveredAfter is computed when the call is made, before the cache is
\* consulted
getRecentDeliveries_fiveMinutes(options, ok) ==
  LET days == DaysOrDefault(options.days)
      deliveredAfter == now - days * DayLen
  IN ReadStep("getRecentDeliveries",
              <<ToString(options.limit), ToString(options.days)>>,
              getOrFetch(cache, createCacheKey("delivered",
                << <<"limit", NumKey(options.limit)>>,
                   <<"days", ToString(days)>> >>),
              FIVE_MINUTES, cacheDisabled, now,
              OneRequest(ok, deliveredWithin(getTrackings("Delivered",
                                                          Undefined),
                                             deliveredAfter))))

getRecentDeliveries(options, ok) ==
  LET days == DaysOrDefault(options.days)
      deliveredAfter == now - days * DayLen
  IN ReadStep("getRecentDeliveries",
              <<ToString(options.limit), ToString(options.days)>>,
              getOrFetch(cache, createCacheKey("delivered",
                << <<"limit", NumKey(options.limit)>>,
                   <<"days", ToString(days)>> >>),
              FIFTEEN_MINUTES, cacheDisabled, now,
              OneRequest(ok, deliveredWithin(getTrackings("Delivered",
                                                          Undefined),
                                             deliveredAfter))))

\* includeAll: "true", "false" or Undefined
listCouriers(includeAll, ok) ==
  ReadStep("listCouriers", <<includeAll>>,
           getOrFetch(cache,
                      createCacheKey("couriers", << <<"all", includeAll>> >>),
           HOUR, cacheDisabled, now, OneRequest(ok, <<>>)))

\* resp: "fail", "empty" or "found" (the detected couriers, most likely first)
detectCourierFetch(resp) ==
  OneRequest(resp # "fail", IF resp = "found" THEN <<"dhl", "ups">> ELSE <<>>)

detectCourierIn(c, trackingNumber, resp) ==
  getOrFetch(c, createCacheKey("detect",
               << <<"trackingNumber", trackingNumber>> >>),
             DAY, cacheDisabled, now, detectCourierFetch(resp))

detectCourier(trackingNumber, resp) ==
  ReadStep("detectCourier", <<trackingNumber>>,
           detectCourierIn(cache, trackingNumber, resp))

(* ------------------------- carrier resolution -------------------------- *)

knownCarriers == <<"ups", "royal-mail", "carrier-freight">>

\* one line of the log of a resolution: the inner call, whether it raised,
\* how many couriers or trackings it returned, the requests it issued
LogLine(what, r) ==
  [call |-> what, raised |-> r.raised, n |-> Len(r.result.data),
   first |-> IF Len(r.result.data) > 0 THEN r.result.data[1] ELSE "null",
   reqs |-> r.reqs]

\* the catch of a fallback probe returns at once instead of continuing
probeCarriers_givesUp(st, trackingNumber, probes, i) ==
  IF i > Len(knownCarriers)
  THEN [st |-> st, raised |-> FALSE, method |-> "not-found",
        courier |-> "null"]
  ELSE LET slug == knownCarriers[i]
           r == getTrackingByNumberIn(st.cache, trackingNumber, slug,
                                      probes[i])
           st2 == [cache |-> r.cache,
                   hist |-> Observe(st.hist,
                                    <<"getTrackingByNumber", trackingNumber,
                                      slug>>, r),
                   log |-> Append(st.log, LogLine(slug, r)),
                   reqs |-> st.reqs + r.reqs,
                   requests |-> st.requests \o r.requests]
       IN IF ~r.raised
          THEN [st |-> st2, raised |-> FALSE, method |-> "fallback-" \o slug,
                courier |-> slug]
          ELSE [st |-> st2, raised |-> FALSE, method |-> "not-found",
                courier |-> "null"]

\* the courier returned is the first known carrier, not the one that answered
RECURSIVE probeCarriers_firstCarrier(_, _, _, _)
probeCarriers_firstCarrier(st, trackingNumber, probes, i) ==
  IF i > Len(knownCarriers)
  THEN [st |-> st, raised |-> FALSE, method |-> "not-found",
        courier |-> "null"]
  ELSE LET slug == knownCarriers[i]
           r == getTrackingByNumberIn(st.cache, trackingNumber, slug,
                                      probes[i])
           st2 == [cache |-> r.cache,
                   hist |-> Observe(st.hist,
                                    <<"getTrackingByNumber", trackingNumber,
                                      slug>>, r),
                   log |-> Append(st.log, LogLine(slug, r)),
                   reqs |-> st.reqs + r.reqs,
                   requests |-> st.requests \o r.requests]
       IN IF ~r.raised
          THEN [st |-> st2, raised |-> FALSE, method |-> "fallback-" \o slug,
                courier |-> knownCarriers[1]]
          ELSE probeCarriers_firstCarrier(st2, trackingNumber, probes, i + 1)

\* the loop over knownCarriers from its i-th carrier on; st is the cache, the
\* observations and the log reached so far; probes[i] is the remote answer
\* to the i-th lookup
RECURSIVE probeCarriers(_, _, _, _)
probeCarriers(st, trackingNumber, probes, i) ==
  IF i > Len(knownCarriers)
  THEN [st |-> st, raised |-> FALSE, method |-> "not-found",
        courier |-> "null"]
  ELSE LET slug == knownCarriers[i]
           r == getTrackingByNumberIn(st.cache, trackingNumber, slug,
                                      probes[i])
           st2 == [cache |-> r.cache,
                   hist |-> Observe(st.hist,
                                    <<"getTrackingByNumber", trackingNumber,
                                      slug>>, r),
                   log |-> Append(st.log, LogLine(slug, r)),
                   reqs |-> st.reqs + r.reqs,
                   requests |-> st.requests \o r.requests]
       IN IF ~r.raised
          THEN [st |-> st2, raised |-> FALSE, method |-> "fallback-" \o slug,
                courier |-> slug]
          ELSE probeCarriers(st2, trackingNumber, probes, i + 1)

\* the detection result is returned without looking at its length
resolveOutcome_noLengthCheck(trackingNumber, det, probes) ==
  LET r == detectCourierIn(cache, trackingNumber, det)
      st == [cache |-> r.cache,
             hist |-> Observe(hist, <<"detectCourier", trackingNumber>>, r),
             log |-> <<LogLine("detect", r)>>, reqs |-> r.reqs,
             requests |-> r.requests]
  IN IF ~r.raised
     THEN [st |-> st, raised |-> FALSE, method |-> "auto-detected",
           courier |-> IF Len(r.result.data) > 0 THEN r.result.data[1]
                       ELSE Undefined]
     ELSE probeCarriers(st, trackingNumber, probes, 1)

\* what resolveTracking computes: detection first (a failure is caught),
\* then the fallback probes
resolveOutcome(trackingNumber, det, probes) ==
  LET r == detectCourierIn(cache, trackingNumber, det)
      st == [cache |-> r.cache,
             hist |-> Observe(hist, <<"detectCourier", trackingNumber>>, r),
             log |-> <<LogLine("detect", r)>>, reqs |-> r.reqs,
             requests |-> r.requests]
  IN IF ~r.raised /\ Len(r.result.data) > 0
     THEN [st |-> st, raised |-> FALSE, method |-> "auto-detected",
           courier |-> r.result.data[1]]
     ELSE probeCarriers(st, trackingNumber, probes, 1)

resolveTracking(trackingNumber, det, probes) ==
  \E out \in {resolveOutcome(trackingNumber, det, probes)} :
     /\ sdk
     /\ steps < MaxSteps
     /\ steps' = steps + 1
     /\ cache' = out.st.cache
     /\ hist' = out.st.hist
     /\ last' = [kind |-> "resolve", op |-> "resolveTracking",
                 call |-> <<"resolveTracking", trackingNumber>>,
                 bypass |-> bypassRequested, raised |-> out.raised,
                 reqs |-> out.st.reqs,
                 result |-> [ver |-> ver,
                             data |-> <<out.method, out.courier>>],
                 prior |-> NoHist, at |-> now, log |-> out.st.log,
                 requests |-> out.st.requests, cmd |-> <<>>, error |-> ""]
     /\ UNCHANGED <<flight, sdk, now, cacheDisabled, bypassRequested, ver, batch>>

(* --------------------------- mutations --------------------------------- *)

\* the invalidations run before the request is awaited
MutStepFor_invalidatesFirst(cmd, op, id, ok, newCache) ==
  /\ sdk
  /\ steps < MaxSteps
  /\ steps' = steps + 1
  /\ cache' = newCache
  /\ ver' = IF ok THEN ver + 1 ELSE ver
  /\ hist' = IF ok
             THEN [c \in DOMAIN hist |->
                     [hist[c] EXCEPT !.muts = @ \cup {<<op, id>>}]]
             ELSE hist
  /\ last' = [kind |-> "mutate", op |-> op, call |-> <<op, id>>,
              bypass |-> bypassRequested, raised |-> ~ok, reqs |-> 1,
              result |-> NoValue, prior |-> NoHist, at |-> now, log |-> <<>>,
              requests |-> <<Request("sdk", "", ~ok)>>, cmd |-> cmd,
              error |-> ""]
  /\ UNCHANGED <<flight, sdk, now, cacheDisabled, bypassRequested, batch>>

\* a mutating call: one SDK request, then (only when it returned) the
\* invalidations, whose outcome is newCache; cmd is the CLI command line the
\* call was made for, <<>> for a direct call
MutStepFor(cmd, op, id, ok, newCache) ==
  /\ sdk
  /\ steps < MaxSteps
  /\ steps' = steps + 1
  /\ cache' = IF ok THEN newCache ELSE cache
  /\ ver' = IF ok THEN ver + 1 ELSE ver
  /\ hist' = IF ok
             THEN [c \in DOMAIN hist |->
                     [hist[c] EXCEPT !.muts = @ \cup {<<op, id>>}]]
             ELSE hist
  /\ last' = [kind |-> "mutate", op |-> op, call |-> <<op, id>>,
              bypass |-> bypassRequested, raised |-> ~ok, reqs |-> 1,
              result |-> NoValue, prior |-> NoHist, at |-> now, log |-> <<>>,
              requests |-> <<Request("sdk", "", ~ok)>>, cmd |-> cmd,
              error |-> ""]
  /\ UNCHANGED <<flight, sdk, now, cacheDisabled, bypassRequested, batch>>

MutStep(op, id, ok, newCache) == MutStepFor(<<>>, op, id, ok, newCache)

createTrackingFor(cmd, trackingNumber, ok) ==
  MutStepFor(cmd, "createTracking", trackingNumber, ok,
             invalidatePattern(invalidatePattern(cache, "tracking"), "order"))

createTracking(trackingNumber, ok) ==
  createTrackingFor(<<>>, trackingNumber, ok)

updateTracking(id, ok) ==
  MutStep("updateTracking", id, ok,
          invalidatePattern(
            invalidate(cache,
                       createCacheKey("tracking:id", << <<"id", id>> >>)),
            "order"))

deleteTracking(id, ok) ==
  MutStep("deleteTracking", id, ok,
          invalidatePattern(
            invalidatePattern(
              invalidate(cache,
                         createCacheKey("tracking:id", << <<"id", id>> >>)),
              "tracking"),
            "order"))

retrackById(id, ok) ==
  MutStep("retrackById", id, ok,
          invalidatePattern(
            invalidate(cache,
                       createCacheKey("tracking:id", << <<"id", id>> >>)),
            "tracking"))

markCompleted(id, ok) ==
  MutStep("markCompleted", id, ok,
          invalidatePattern(
            invalidate(cache,
                       createCacheKey("tracking:id", << <<"id", id>> >>)),
            "tracking"))

(* ------------------------ cache control, clock ------------------------- *)

\* requested: what the caller asked for; flag: what the client sets
Control(op, requested, flag) ==
  /\ sdk
  /\ steps < MaxSteps
  /\ steps' = steps + 1
  /\ cacheDisabled' = flag
  /\ bypassRequested' = requested
  /\ last' = [kind |-> "control", op |-> op, call |-> <<op>>,
              bypass |-> requested, raised |-> FALSE, reqs |-> 0,
              result |-> NoValue, prior |-> NoHist, at |-> now, log |-> <<>>,
              requests |-> <<>>, cmd |-> <<>>, error |-> ""]
  /\ UNCHANGED <<flight, sdk, cache, now, ver, batch, hist>>

disableCache_forgets == Control("disableCache", TRUE, cacheDisabled)

disableCache == Control("disableCache", TRUE, TRUE)

enableCache == Control("enableCache", FALSE, FALSE)

\* the unanchored, case-insensitive pattern
\* order.*<orderId>|tracking.*order_id.*<orderId> tested against a key, for
\* an order id of letters and digits
MatchesOrderPattern(key, orderId) ==
  LET text == KeyText(key)
      id == TokenText(orderId)
  IN \/ \E i \in Occurs(TokenText("order"), text, 1) :
          Occurs(id, text, i + 5) # {}
     \/ \E i \in Occurs(Chars("tracking"), text, 1) :
          \E j \in Occurs(TokenText("order_id"), text, i + 8) :
            Occurs(id, text, j + 8) # {}

\* invalidateByOrderId: every entry whose key matches the pattern is removed;
\* the number of entries removed is returned
invalidateByOrderId(orderId) ==
  LET gone == {k \in DOMAIN cache : MatchesOrderPattern(k, orderId)}
  IN /\ sdk
     /\ steps < MaxSteps
     /\ steps' = steps + 1
     /\ cache' = Drop(cache, gone)
     /\ last' = [kind |-> "invalidate", op |-> "invalidateByOrderId",
                 call |-> <<"invalidateByOrderId", orderId>>,
                 bypass |-> bypassRequested, raised |-> FALSE, reqs |-> 0,
                 result |-> [ver |-> ver,
                             data |-> <<ToString(Cardinality(gone))>>],
                 prior |-> NoHist, at |-> now, log |-> <<>>,
                 requests |-> <<>>, cmd |-> <<>>, error |-> ""]
     /\ UNCHANGED <<flight, sdk, now, cacheDisabled, bypassRequested, ver,
                    batch, hist>>

\* minutes that pass between two calls
Delays == {3, 10, 30, 100, 1500}

Tick(d) ==
  /\ steps < MaxSteps
  /\ steps' = steps + 1
  /\ now' = now + d
  /\ UNCHANGED <<flight, sdk, cache, cacheDisabled, bypassRequested, ver, batch, hist,
                 last>>

(* ------------------------------ utility -------------------------------- *)

\* what sdk.courier.getCouriers() does: it raises an error with or without a
\* message, or returns a response without or with a couriers list
StatusAnswers == {"raise-message", "raise-silent", "no-couriers", "couriers"}

StatusRaises(resp) == resp \in {"raise-message", "raise-silent"}

\* response.couriers?.length || 0
connectedCouriers(resp) == IF resp = "couriers" THEN 2 ELSE 0

\* error.message || "API key validation failed"
statusMessage(resp) ==
  IF resp = "raise-message" THEN "Unauthorized"
  ELSE "API key validation failed"

\* what getApiStatus returns: valid, message, details
apiStatus(resp) ==
  IF StatusRaises(resp)
  THEN <<"invalid", statusMessage(resp),
         IF resp = "raise-message" THEN "401" ELSE "unknown">>
  ELSE <<"valid", "API key is valid", ToString(connectedCouriers(resp))>>

\* the inner call of getApiStatus in the log: what the SDK answered
StatusLine(resp) ==
  [call |-> "getCouriers", raised |-> StatusRaises(resp),
   n |-> connectedCouriers(resp), first |-> "null", reqs |-> 1]

\* the error of the request is thrown again
getApiStatus_rethrows(resp) ==
  /\ sdk
  /\ steps < MaxSteps
  /\ steps' = steps + 1
  /\ last' = [kind |-> "status", op |-> "getApiStatus",
              call |-> <<"getApiStatus">>, bypass |-> bypassRequested,
              raised |-> StatusRaises(resp), reqs |-> 1,
              result |-> IF StatusRaises(resp) THEN NoValue
                         ELSE [ver |-> ver, data |-> apiStatus(resp)],
              prior |-> NoHist, at |-> now, log |-> <<StatusLine(resp)>>,
              requests |-> <<Request("getCouriers", "", StatusRaises(resp))>>,
              cmd |-> <<>>, error |-> ""]
  /\ UNCHANGED <<flight, sdk, cache, now, cacheDisabled, bypassRequested, ver,
                 batch, hist>>

\* getApiStatus: one getCouriers request outside the cache; a failure is
\* caught and returned as valid: false
getApiStatus(resp) ==
  /\ sdk
  /\ steps < MaxSteps
  /\ steps' = steps + 1
  /\ last' = [kind |-> "status", op |-> "getApiStatus",
              call |-> <<"getApiStatus">>, bypass |-> bypassRequested,
              raised |-> FALSE, reqs |-> 1,
              result |-> [ver |-> ver, data |-> apiStatus(resp)],
              prior |-> NoHist, at |-> now, log |-> <<StatusLine(resp)>>,
              requests |-> <<Request("getCouriers", "", StatusRaises(resp))>>,
              cmd |-> <<>>, error |-> ""]
  /\ UNCHANGED <<flight, sdk, cache, now, cacheDisabled, bypassRequested, ver,
                 batch, hist>>

(* ------------------- construction, the command line -------------------- *)

\* config.json: without an aftership section, with a section that has no
\* apiKey, with an empty apiKey, with a key
Configs == {"no-section", "no-key", "empty-key", "key"}

\* configFile.aftership?.apiKey
apiKey(config) ==
  CASE config = "key" -> "k-123"
    [] config = "empty-key" -> ""
    [] OTHER -> Undefined

\* a string option that JavaScript takes for false: undefined or empty
Falsy(v) == v = Undefined \/ v = ""

\* a step that ends in a locally raised error: no request, no cache access
Raise(kind, op, call, cmd, error) ==
  /\ steps < MaxSteps
  /\ steps' = steps + 1
  /\ last' = [kind |-> kind, op |-> op, call |-> call,
              bypass |-> bypassRequested, raised |-> TRUE, reqs |-> 0,
              result |-> NoValue, prior |-> NoHist, at |-> now, log |-> <<>>,
              requests |-> <<>>, cmd |-> cmd, error |-> error]
  /\ UNCHANGED <<flight, sdk, cache, now, cacheDisabled, bypassRequested, ver, batch,
                 hist>>

\* the SDK client is created whenever the file has an aftership section
constructor_sectionOnly(config) ==
  /\ ~sdk
  /\ last.kind = "none"
  /\ IF config = "no-section"
     THEN Raise("construct", "constructor", <<"constructor", config>>, <<>>,
                "Missing required config in config.json: aftership.apiKey")
     ELSE /\ steps < MaxSteps
          /\ steps' = steps + 1
          /\ sdk' = TRUE
          /\ last' = [NoCall EXCEPT !.kind = "construct",
                                    !.op = "constructor",
                                    !.call = <<"constructor", config>>,
                                    !.at = now]
          /\ UNCHANGED <<flight, cache, now, cacheDisabled, bypassRequested, ver,
                         batch, hist>>

\* new AfterShipClient() in a process that has no client yet
constructor(config) ==
  /\ ~sdk
  /\ last.kind = "none"
  /\ IF Falsy(apiKey(config))
     THEN Raise("construct", "constructor", <<"constructor", config>>, <<>>,
                "Missing required config in config.json: aftership.apiKey")
     ELSE /\ steps < MaxSteps
          /\ steps' = steps + 1
          /\ sdk' = TRUE
          /\ last' = [NoCall EXCEPT !.kind = "construct",
                                    !.op = "constructor",
                                    !.call = <<"constructor", config>>,
                                    !.at = now]
          /\ UNCHANGED <<flight, cache, now, cacheDisabled, bypassRequested, ver,
                         batch, hist>>

\* values of --custom-fields: left out, empty, two that JSON.parse rejects
\* and two it accepts
CustomFields ==
  {Undefined, "", "{oops", "direction=inbound", "{\"direction\":\"inbound\"}",
   "{}"}

\* JSON.parse(s) returns
ValidJSON(s) == s \in {"{\"direction\":\"inbound\"}", "{}"}

\* the create-tracking command
createTrackingCommand(trackingNumber, customFields, ok) ==
  LET cmd == <<"create-tracking", trackingNumber, customFields>>
  IN /\ sdk
     /\ IF ~Falsy(customFields) /\ ~ValidJSON(customFields)
        THEN Raise("command", "create-tracking", cmd, cmd,
                   "Invalid JSON for customFields")
        ELSE createTrackingFor(cmd, trackingNumber, ok)

\* the refine() of the get-tracking schema
getTrackingArgsValid(id, trackingNumber, slug) ==
  id # Undefined \/ (trackingNumber # Undefined /\ slug # Undefined)

\* the get-tracking command; resp is the remote answer, as for
\* getTrackingByNumber
getTrackingCommand(id, trackingNumber, slug, resp) ==
  LET cmd == <<"get-tracking", id, trackingNumber, slug>>
  IN /\ sdk
     /\ IF ~getTrackingArgsValid(id, trackingNumber, slug)
        THEN Raise("command", "get-tracking", cmd, cmd,
                   "Either --id OR (--tracking-number AND --slug) is required")
        ELSE IF ~Falsy(id)
             THEN getTrackingByIdFor(cmd, id, resp = "found")
             ELSE getTrackingByNumberFor(cmd, trackingNumber, slug, resp)

(* --------------------------- the remote side --------------------------- *)

\* the shipments of the model: tracking id, tracking number, carrier slug
Shipments ==
  { [id |-> "a1", number |-> "n1", slug |-> "ups"],
    [id |-> "b2", number |-> "n2", slug |-> "royal-mail"] }

Ids == {s.id : s \in Shipments}

NoOptions ==
  [tag |-> Undefined, slug |-> Undefined, order_id |-> Undefined,
   created_at_min |-> Undefined, created_at_max |-> Undefined, limit |-> 0]

ListOptions == {NoOptions, [NoOptions EXCEPT !.tag = "InTransit", !.limit = 20]}

(* --------------------------- specification ----------------------------- *)

\* when the behaviours start
Start == 7 * DayLen

\* a constructed client with an empty cache
Init ==
  /\ flight = NoFlight
  /\ sdk = TRUE
  /\ cache = <<>>
  /\ now = Start
  /\ cacheDisabled = FALSE
  /\ bypassRequested = FALSE
  /\ ver = 0
  /\ batch = <<>>
  /\ hist = <<>>
  /\ last = NoCall
  /\ steps = 0

Reads ==
  \/ \E o \in ListOptions, ok \in BOOLEAN : listTrackings(o, ok)
  \/ \E id \in Ids, ok \in BOOLEAN : getTrackingById(id, ok)
  \/ \E s \in Shipments, resp \in {"fail", "none", "found"} :
       getTrackingByNumber(s.number, s.slug, resp)
  \/ \E failAt \in {0, 1, 2} : searchByOrderId("12", failAt)
  \/ \E ok \in BOOLEAN : findExceptions([limit |-> 0, days |-> 0], ok)
  \/ \E ok \in BOOLEAN : findDelayed([days |-> 0], ok)
  \/ \E failAt \in {0, 4} :
       getActiveShipments([limit |-> 0, slug |-> Undefined], failAt)
  \/ \E ok \in BOOLEAN : getRecentDeliveries([limit |-> 0, days |-> 0], ok)
  \/ \E ok \in BOOLEAN : listCouriers("false", ok)
  \/ \E resp \in {"fail", "empty", "found"} : detectCourier("n1", resp)

Mutations ==
  \/ \E ok \in BOOLEAN : createTracking("n3", ok)
  \/ \E id \in Ids, ok \in BOOLEAN : updateTracking(id, ok)
  \/ \E id \in Ids, ok \in BOOLEAN : deleteTracking(id, ok)
  \/ \E id \in Ids, ok \in BOOLEAN : retrackById(id, ok)
  \/ \E id \in Ids, ok \in BOOLEAN : markCompleted(id, ok)

Next ==
  \/ Reads
  \/ Mutations
  \/ \E resp \in {"raise-message", "couriers"} : getApiStatus(resp)
  \/ disableCache
  \/ enableCache
  \/ \E d \in Delays : Tick(d)

Spec == Init /\ [][Next]_vars

(* ---------------- specification of the delay filter ------------------- *)

Slugs ==
  {"ups", "UPS", "royal-mail", "royalmail", "carrier-freight", "dhl",
   "constructor"}

\* latest estimates: none, in an hour, and one day, just under two days, two
\* days and three days before Start
LatestDates ==
  {NoDate, Start + 60, Start - DayLen, Start - 2 * DayLen + 1,
   Start - 2 * DayLen, Start - 3 * DayLen}

\* the three date fields of a record: with a latest estimate the other two
\* are both absent or both present (the courier's three days before Start,
\* the promise an hour after it); without one they vary freely
DateShapes ==
  {<<l, c, p>> : l \in LatestDates, c \in {NoDate, Start - 3 * DayLen},
                 p \in {NoDate, Start + 60}}
  \ {d \in LatestDates \X {NoDate, Start - 3 * DayLen} \X {NoDate, Start + 60} :
       d[1] # NoDate /\ ((d[2] = NoDate) # (d[3] = NoDate))}

Tracking(tag, slug, d) ==
  [id |-> "a1", tag |-> tag, slug |-> slug,
   latest_estimated_delivery |-> d[1],
   courier_estimated_delivery_date |-> d[2],
   order_promised_delivery_date |-> d[3]]

\* open shipments of every carrier and date shape; closed ones that would
\* count as delayed if they were open
TrackingRecords ==
  {Tracking("InTransit", sl, d) : sl \in Slugs, d \in DateShapes}
  \cup {Tracking(tg, "ups", <<l, NoDate, NoDate>>) :
          tg \in {"Delivered", "Expired"}, l \in {NoDate, Start - 3 * DayLen}}

RECURSIVE SeqsUpTo(_, _)
SeqsUpTo(S, n) ==
  IF n = 0 THEN {<<>>}
  ELSE LET shorter == SeqsUpTo(S, n - 1)
       IN shorter \cup {Append(q, x) : q \in {p \in shorter : Len(p) = n - 1},
                                       x \in S}

InitDelayed ==
  /\ flight = NoFlight
  /\ sdk = TRUE
  /\ cache = <<>>
  /\ now = Start
  /\ cacheDisabled = FALSE
  /\ bypassRequested = FALSE
  /\ ver = 0
  /\ batch \in SeqsUpTo(TrackingRecords, MaxBatch)
  /\ hist = <<>>
  /\ last = NoCall
  /\ steps = 0

NextDelayed ==
  \/ \E ok \in BOOLEAN : findDelayed([days |-> 0], ok)
  \/ Tick(3)

SpecDelayed == InitDelayed /\ [][NextDelayed]_vars

(* ------------- specification of the days option of findDelayed -------- *)

\* the days values of the calls: left out, 1 and 3
DaysValues == {0, 1, 3}

\* open shipments: a UPS one and a DHL one that are one day overdue at Start
\* and two days overdue three minutes later, a DHL one three days overdue
\* and a Royal Mail one two days overdue
DaysRecords ==
  {Tracking("InTransit", "ups", <<Start - 2 * DayLen + 1, NoDate, NoDate>>),
   Tracking("InTransit", "dhl", <<Start - 2 * DayLen + 1, NoDate, NoDate>>),
   Tracking("InTransit", "dhl", <<Start - 3 * DayLen, NoDate, NoDate>>),
   Tracking("InTransit", "royal-mail", <<Start - 2 * DayLen, NoDate, NoDate>>)}

InitDays ==
  /\ flight = NoFlight
  /\ sdk = TRUE
  /\ cache = <<>>
  /\ now = Start
  /\ cacheDisabled = FALSE
  /\ bypassRequested = FALSE
  /\ ver = 0
  /\ batch \in SeqsUpTo(DaysRecords, MaxBatch)
  /\ hist = <<>>
  /\ last = NoCall
  /\ steps = 0

NextDays ==
  \/ \E d \in DaysValues, ok \in BOOLEAN : findDelayed([days |-> d], ok)
  \/ Tick(3)

SpecDays == InitDays /\ [][NextDays]_vars

(* -------------- specification of the carrier resolution ---------------- *)

Answers == {"fail", "none", "found"}

NextResolve ==
  \/ \E det \in {"fail", "empty", "found"},
        probes \in [1..Len(knownCarriers) -> Answers] :
       resolveTracking("n1", det, probes)
  \/ \E resp \in {"fail", "empty", "found"} : detectCourier("n1", resp)
  \/ \E i \in 1..Len(knownCarriers), resp \in Answers :
       getTrackingByNumber("n1", knownCarriers[i], resp)
  \/ disableCache
  \/ \E d \in {10, 1500} : Tick(d)

SpecResolve == Init /\ [][NextResolve]_vars

(* ---------------- specification of the active shipments --------------- *)

\* two shipments seen as Pending or InTransit (a shipment that changes its
\* tag between two requests is answered under both), an exception and a
\* delivered one
ActiveRecords ==
  {[id |-> i, tag |-> tg, slug |-> "ups"] :
     i \in {"a1", "b2"}, tg \in {"Pending", "InTransit"}}
  \cup {[id |-> "c3", tag |-> "Delivered", slug |-> "ups"],
        [id |-> "d4", tag |-> "Exception", slug |-> "ups"]}

InitActive ==
  /\ flight = NoFlight
  /\ sdk = TRUE
  /\ cache = <<>>
  /\ now = Start
  /\ cacheDisabled = FALSE
  /\ bypassRequested = FALSE
  /\ ver = 0
  /\ batch \in SeqsUpTo(ActiveRecords, MaxRemote)
  /\ hist = <<>>
  /\ last = NoCall
  /\ steps = 0

NextActive ==
  \/ \E failAt \in {0, 1, 4} :
       getActiveShipments([limit |-> 0, slug |-> Undefined], failAt)
  \/ disableCache
  \/ Tick(10)

SpecActive == InitActive /\ [][NextActive]_vars

(* ---------------- specification of the search by order ---------------- *)

\* trackings of order 12 and of order 123, whose text contains 12 too, and
\* one of order 7
OrderRecords ==
  {[id |-> "a1", order_id |-> "12", words |-> {"12"}],
   [id |-> "b2", order_id |-> "12", words |-> {"12"}],
   [id |-> "c3", order_id |-> "123", words |-> {"12", "123"}],
   [id |-> "d4", order_id |-> "7", words |-> {"7"}]}

InitSearch ==
  /\ flight = NoFlight
  /\ sdk = TRUE
  /\ cache = <<>>
  /\ now = Start
  /\ cacheDisabled = FALSE
  /\ bypassRequested = FALSE
  /\ ver = 0
  /\ batch \in SeqsUpTo(OrderRecords, MaxRemote)
  /\ hist = <<>>
  /\ last = NoCall
  /\ steps = 0

NextSearch ==
  \/ \E failAt \in {0, 1, 2} : searchByOrderId("12", failAt)
  \/ disableCache
  \/ Tick(10)

SpecSearch == InitSearch /\ [][NextSearch]_vars

(* --------------- specification of the recent deliveries --------------- *)

\* delivered trackings: without a delivery date, delivered a minute before
\* the seven-day window opens at Start, five minutes after it opens, and a
\* day before Start; and a shipment in transit
DeliveryRecords ==
  {[id |-> "a1", tag |-> "Delivered", shipment_delivery_date |-> NoDate],
   [id |-> "b2", tag |-> "Delivered",
    shipment_delivery_date |-> Start - 7 * DayLen - 1],
   [id |-> "c3", tag |-> "Delivered",
    shipment_delivery_date |-> Start - 7 * DayLen + 5],
   [id |-> "d4", tag |-> "Delivered",
    shipment_delivery_date |-> Start - DayLen],
   [id |-> "e5", tag |-> "InTransit", shipment_delivery_date |-> NoDate]}

InitDeliveries ==
  /\ flight = NoFlight
  /\ sdk = TRUE
  /\ cache = <<>>
  /\ now = Start
  /\ cacheDisabled = FALSE
  /\ bypassRequested = FALSE
  /\ ver = 0
  /\ batch \in SeqsUpTo(DeliveryRecords, MaxRemote)
  /\ hist = <<>>
  /\ last = NoCall
  /\ steps = 0

NextDeliveries ==
  \/ \E ok \in BOOLEAN : getRecentDeliveries([limit |-> 0, days |-> 0], ok)
  \/ getRecentDeliveries([limit |-> 0, days |-> 1], TRUE)
  \/ Tick(10)

SpecDeliveries == InitDeliveries /\ [][NextDeliveries]_vars

(* ------------------- specification of the cache keys ------------------ *)

\* filters of listTrackings: none, one filter each, the same text as either
\* date bound
KeyOptions ==
  {NoOptions, [NoOptions EXCEPT !.tag = "InTransit"],
   [NoOptions EXCEPT !.slug = "ups"], [NoOptions EXCEPT !.order_id = "12"],
   [NoOptions EXCEPT !.created_at_min = "2024-01-01"],
   [NoOptions EXCEPT !.created_at_max = "2024-01-01"],
   [NoOptions EXCEPT !.limit = 20]}

\* every read operation with parameters that differ in one value; the remote
\* service answers each request
NextKeys ==
  \/ \E o \in KeyOptions : listTrackings(o, TRUE)
  \/ \E id \in {"a1", "12"} : getTrackingById(id, TRUE)
  \/ \E n \in {<<"n1", "ups">>, <<"n1", "royal-mail">>, <<"12", "ups">>} :
       getTrackingByNumber(n[1], n[2], "found")
  \/ \E o \in {"12", "n1"} : searchByOrderId(o, 0)
  \/ \E o \in {[limit |-> 0, days |-> 0], [limit |-> 20, days |-> 0],
               [limit |-> 0, days |-> 20]} : findExceptions(o, TRUE)
  \/ \E d \in {0, 20} : findDelayed([days |-> d], TRUE)
  \/ \E o \in {[limit |-> 0, slug |-> Undefined],
               [limit |-> 0, slug |-> "ups"]} : getActiveShipments(o, 0)
  \/ \E o \in {[limit |-> 0, days |-> 0], [limit |-> 20, days |-> 0],
               [limit |-> 0, days |-> 20]} : getRecentDeliveries(o, TRUE)
  \/ \E all \in {"true", "false", Undefined} : listCouriers(all, TRUE)
  \/ \E n \in {"n1", "12"} : detectCourier(n, "found")

SpecKeys == Init /\ [][NextKeys]_vars

(* ------------------ specification of the command line ------------------ *)

\* a process that has not constructed its client yet
InitCli ==
  /\ flight = NoFlight
  /\ sdk = FALSE
  /\ cache = <<>>
  /\ now = Start
  /\ cacheDisabled = FALSE
  /\ bypassRequested = FALSE
  /\ ver = 0
  /\ batch = <<>>
  /\ hist = <<>>
  /\ last = NoCall
  /\ steps = 0

NextCli ==
  \/ \E config \in Configs : constructor(config)
  \/ \E cf \in CustomFields, ok \in BOOLEAN :
       createTrackingCommand("n3", cf, ok)
  \/ \E id \in {Undefined, "", "a1"}, tn \in {Undefined, "n1"},
        slug \in {Undefined, "ups"}, resp \in {"fail", "none", "found"} :
       getTrackingCommand(id, tn, slug, resp)
  \/ \E ok \in BOOLEAN : updateTracking("a1", ok)
  \/ Tick(3)

SpecCli == InitCli /\ [][NextCli]_vars

(* ------------- specification of the invalidation by order ------------- *)

\* order 12, order 123 whose id contains 12, and order 7
OrderIds == {"12", "123", "7"}

NextInvalidate ==
  \/ \E o \in OrderIds, failAt \in {0, 1} : searchByOrderId(o, failAt)
  \/ \E o \in {Undefined, "12", "123"} :
       listTrackings([NoOptions EXCEPT !.order_id = o], TRUE)
  \/ findExceptions([limit |-> 0, days |-> 0], TRUE)
  \/ findDelayed([days |-> 0], TRUE)
  \/ getActiveShipments([limit |-> 0, slug |-> Undefined], 0)
  \/ getRecentDeliveries([limit |-> 0, days |-> 0], TRUE)
  \/ listCouriers("false", TRUE)
  \/ detectCourier("n1", "found")
  \/ \E o \in OrderIds : invalidateByOrderId(o)
  \/ Tick(10)

SpecInvalidate == Init /\ [][NextInvalidate]_vars

(* ------------------- specification of the API status ------------------ *)

\* getApiStatus next to the cached couriers list, which it does not use
NextStatus ==
  \/ \E resp \in StatusAnswers : getApiStatus(resp)
  \/ \E all \in {"false", Undefined}, ok \in BOOLEAN : listCouriers(all, ok)
  \/ disableCache
  \/ enableCache
  \/ Tick(10)

SpecStatus == Init /\ [][NextStatus]_vars

(* ------------------ an operation, request by request ------------------- *)

\* the read operations whose fetcher issues a single request
SingleCallReads ==
  {"listTrackings", "getTrackingById", "getTrackingByNumber",
   "findExceptions", "findDelayed", "getRecentDeliveries", "listCouriers",
   "detectCourier"}

MutatingOps ==
  {"createTracking", "updateTracking", "deleteTracking", "retrackById",
   "markCompleted"}

\* the operations that begin with a cache lookup
CachedOps == SingleCallReads \cup {"searchByOrderId", "getActiveShipments"}

\* what an awaited SDK request can do: raise, return nothing, return data
Responses == {"fail", "empty", "found"}

Done(f, outcome) == [f EXCEPT !.phase = "done", !.outcome = outcome]

Again(f) == [f EXCEPT !.phase = "ready", !.k = @ + 1]

\* after the response to the request of a one-request operation: the error
\* propagates (getTrackingByNumber raises on an empty answer too);
\* getApiStatus catches it
afterSingleRequest(f, ans) ==
  IF f.op = "getApiStatus" THEN Done(f, "returned")
  ELSE IF ans = "fail" \/ (f.op = "getTrackingByNumber" /\ ans = "empty")
       THEN Done(f, "raised")
       ELSE Done(f, "returned")

\* searchByOrderId: the keyword request follows an empty first answer
afterSearchRequest(f, ans) ==
  IF ans = "fail" THEN Done(f, "raised")
  ELSE IF f.k = 1 /\ ans = "empty" THEN Again(f)
       ELSE Done(f, "returned")

\* getActiveShipments: the loop goes on to the next tag
afterActiveRequest(f, ans) ==
  IF ans = "fail" THEN Done(f, "raised")
  ELSE IF f.k < Len(activeTags) THEN Again(f)
       ELSE Done(f, "returned")

\* resolveTracking: the first call is the detection, the others probe the
\* known carriers; a failure and an empty answer lead to the next probe
afterResolveCall(f, ans) ==
  IF ans = "found" THEN Done(f, "returned")
  ELSE IF f.k - 1 < Len(knownCarriers) THEN Again(f)
       ELSE Done(f, "returned")

afterResponse(f, ans) ==
  CASE f.op = "searchByOrderId" -> afterSearchRequest(f, ans)
    [] f.op = "getActiveShipments" -> afterActiveRequest(f, ans)
    [] f.op = "resolveTracking" -> afterResolveCall(f, ans)
    [] OTHER -> afterSingleRequest(f, ans)

FlightStep(f) ==
  /\ flight' = f
  /\ UNCHANGED <<sdk, cache, now, cacheDisabled, bypassRequested, ver, batch,
                 hist, last, steps>>

\* an operation is called when none is running
begin(op) ==
  /\ sdk
  /\ flight.phase \in {"idle", "done"}
  /\ steps < MaxSteps
  /\ steps' = steps + 1
  /\ flight' = [op |-> op, phase |-> "ready", k |-> 1, issued |-> 0,
                inFlight |-> 0, outcome |-> "none"]
  /\ UNCHANGED <<sdk, cache, now, cacheDisabled, bypassRequested, ver, batch,
                 hist, last>>

\* getOrFetch finds an unexpired entry: the operation, or the inner call of
\* resolveTracking, goes on with the cached value and issues no request
fromCache(ans) ==
  /\ flight.phase = "ready"
  /\ ~cacheDisabled
  /\ \/ flight.op \in CachedOps /\ flight.k = 1
     \/ flight.op = "resolveTracking" /\ (flight.k = 1 \/ ans = "found")
  /\ FlightStep(IF flight.op = "resolveTracking"
                THEN afterResolveCall(flight, ans)
                ELSE Done(flight, "returned"))

\* a request is issued while the previous one is still awaited
issue_withoutAwait ==
  /\ flight.phase \in {"ready", "awaiting"}
  /\ flight.op = "getActiveShipments" => flight.issued < Len(activeTags)
  /\ flight.op # "getActiveShipments" => flight.phase = "ready"
  /\ FlightStep([flight EXCEPT !.phase = "awaiting", !.issued = @ + 1,
                               !.inFlight = @ + 1])

\* await this.sdk...: the request is sent and the operation waits
issue ==
  /\ flight.phase = "ready"
  /\ FlightStep([flight EXCEPT !.phase = "awaiting", !.issued = @ + 1,
                               !.inFlight = @ + 1])

\* the awaited request returns or raises
respond(ans) ==
  /\ flight.phase = "awaiting"
  /\ FlightStep(afterResponse([flight EXCEPT !.inFlight = @ - 1], ans))

Progress ==
  \/ \E ans \in {"empty", "found"} : fromCache(ans)
  \/ issue
  \/ \E ans \in Responses : respond(ans)

NextFlight ==
  \/ \E op \in SingleCallReads \cup MutatingOps
              \cup {"getApiStatus", "searchByOrderId", "getActiveShipments",
                    "resolveTracking"} : begin(op)
  \/ Progress

\* every request returns or raises, and the operation goes on when it does
SpecFlight == Init /\ [][NextFlight]_vars /\ WF_vars(Progress)

(* ------------------------------ claims --------------------------------- *)

\* the TTL the specification gives each read operation, in minutes
SpecTTL(op) ==
  CASE op = "getRecentDeliveries" -> 15
    [] op = "listCouriers" -> 60
    [] op = "detectCourier" -> 24 * 60
    [] OTHER -> 5

LastIsRead == last.kind = "read"

LastAge == last.at - last.prior.at

\* C1: a read repeated with the same parameters within the TTL of the entry
\* the earlier call stored, with no mutation in between and no bypass
\* requested, issues no remote request and returns the stored value.
C1_RepeatedReadIsCacheHit ==
  (/\ LastIsRead
   /\ ~last.bypass
   /\ last.prior.has
   /\ last.prior.muts = {}
   /\ LastAge < SpecTTL(last.op))
  => (last.reqs = 0 /\ ~last.raised /\ last.result = last.prior.value)

C1_Witness ==
  /\ LastIsRead
  /\ last.op = "findExceptions"
  /\ ~last.bypass
  /\ last.prior.has
  /\ last.prior.muts = {}
  /\ LastAge = 3
  /\ last.reqs = 0

ListStyleOps ==
  {"listTrackings", "searchByOrderId", "findExceptions", "findDelayed",
   "getActiveShipments", "getRecentDeliveries"}

\* C2: after a successful mutating call, the next call of every list-style
\* read issues a fresh remote request and does not return a value that was
\* cached before the mutation.
C2_ListReadsFreshAfterMutation ==
  (/\ LastIsRead
   /\ last.op \in ListStyleOps
   /\ last.prior.has
   /\ last.prior.muts # {})
  => (last.reqs > 0 /\ (~last.raised => last.result.ver > last.prior.value.ver))

EntityMutations ==
  {"updateTracking", "deleteTracking", "retrackById", "markCompleted"}

\* the tracking id a single-entity read is about
ShipmentOfCall(call) ==
  IF call[1] = "getTrackingById" THEN call[2]
  ELSE (CHOOSE s \in Shipments : s.number = call[2] /\ s.slug = call[3]).id

\* C3: after a successful updateTracking, deleteTracking, retrackById or
\* markCompleted of a tracking, the next getTrackingById and the next
\* getTrackingByNumber of that tracking issue a remote request.
C3_EntityReadsFreshAfterMutation ==
  (/\ LastIsRead
   /\ last.op \in {"getTrackingById", "getTrackingByNumber"}
   /\ last.prior.has
   /\ \E m \in last.prior.muts :
        m[1] \in EntityMutations /\ m[2] = ShipmentOfCall(last.call))
  => last.reqs > 0

\* C4: a result is stored with the TTL of its operation (5 minutes, 15 for
\* getRecentDeliveries, 60 for listCouriers, one day for detectCourier): the
\* same call issues no request before the TTL has elapsed (no mutation in
\* between) and issues one after it has elapsed.
C4_OperationTTL ==
  (LastIsRead /\ ~last.bypass /\ last.prior.has)
  => /\ (last.prior.muts = {} /\ LastAge < SpecTTL(last.op)) => last.reqs = 0
     /\ LastAge > SpecTTL(last.op) => last.reqs > 0

C4_Witness ==
  /\ LastIsRead
  /\ last.op = "getRecentDeliveries"
  /\ ~last.bypass
  /\ last.prior.has
  /\ last.prior.muts = {}
  /\ LastAge = 10
  /\ last.reqs = 0

\* C10: when cache bypass is requested, every read issues a remote request,
\* also when an unexpired entry for the same call is in the cache.
C10_BypassAlwaysFetches ==
  (LastIsRead /\ last.bypass) => last.reqs > 0

C10_Witness ==
  /\ LastIsRead
  /\ last.bypass
  /\ last.prior.has
  /\ last.prior.muts = {}
  /\ LastAge < SpecTTL(last.op)
  /\ last.reqs > 0

(* ---------------------- claims: the delay filter ---------------------- *)

FindDelayedDone == LastIsRead /\ last.op = "findDelayed" /\ ~last.raised

\* when the returned result was computed: at this call, or at the call that
\* stored it
ClassifiedAt == IF last.reqs > 0 THEN last.at ELSE last.prior.at

BatchSet == {batch[i] : i \in DOMAIN batch}

Returned(t) == \E i \in DOMAIN last.result.data : last.result.data[i] = t

HasExpected(t) ==
  \/ t.latest_estimated_delivery # NoDate
  \/ t.courier_estimated_delivery_date # NoDate
  \/ t.order_promised_delivery_date # NoDate

Eligible(t) == t.tag \notin {"Delivered", "Expired"} /\ HasExpected(t)

FirstPopulated(t) ==
  CASE t.latest_estimated_delivery # NoDate -> t.latest_estimated_delivery
    [] t.latest_estimated_delivery = NoDate
       /\ t.courier_estimated_delivery_date # NoDate ->
         t.courier_estimated_delivery_date
    [] OTHER -> t.order_promised_delivery_date

\* whole days from the expected date of t to the classification
DaysOverdue(t) == (ClassifiedAt - FirstPopulated(t)) \div (24 * 60)

\* C5: findDelayed returns no record tagged Delivered or Expired and none
\* without an expected-delivery field; every other record is judged on the
\* first populated of latest_estimated_delivery,
\* courier_estimated_delivery_date, order_promised_delivery_date.
C5_EligibilityAndDatePriority ==
  FindDelayedDone
  => /\ \A i \in DOMAIN last.result.data :
          /\ last.result.data[i] \in BatchSet
          /\ Eligible(last.result.data[i])
     /\ \A t \in BatchSet :
          Eligible(t)
          => (Returned(t)
              <=> /\ thresholdIsNumber(DELAY_THRESHOLDS, toLowerCase(t.slug))
                  /\ DaysOverdue(t)
                       >= threshold(DELAY_THRESHOLDS, toLowerCase(t.slug)))

C5_Witness ==
  /\ FindDelayedDone
  /\ last.reqs > 0
  /\ \E t \in BatchSet :
       /\ Returned(t)
       /\ t.latest_estimated_delivery = NoDate
       /\ t.courier_estimated_delivery_date # NoDate
       /\ t.order_promised_delivery_date # NoDate

\* the threshold table as the specification states it
ClaimedThreshold(slug) ==
  CASE toLowerCase(slug) = "ups" -> 1
    [] toLowerCase(slug) = "royal-mail" -> 3
    [] toLowerCase(slug) = "carrier-freight" -> 2
    [] OTHER -> 2

AmendedThreshold(slug) ==
  CASE toLowerCase(slug) = "ups" -> 1
    [] toLowerCase(slug) \in {"royal-mail", "royalmail"} -> 3
    [] toLowerCase(slug) = "carrier-freight" -> 2
    [] OTHER -> 2

C7_MonotoneInThresholds ==
  FindDelayedDone
  => \A c \in DOMAIN DELAY_THRESHOLDS :
       \A v \in 0..(DELAY_THRESHOLDS[c] - 1) :
         \A i \in DOMAIN last.result.data :
           isDelayed(last.result.data[i], ClassifiedAt,
                     [DELAY_THRESHOLDS EXCEPT ![c] = v])

(* -------------------- claims: carrier resolution ----------------------- *)

ResolveDone == last.kind = "resolve"

Method == last.result.data[1]

Courier == last.result.data[2]

DetectionMissed == last.log[1].raised \/ last.log[1].n = 0

FallbackOrder == <<"ups", "royal-mail", "carrier-freight">>

\* C8: resolveTracking never raises, and it answers "not-found" only when
\* detection failed or found nothing and the lookup of each of the three
\* fallback carriers failed or found no tracking.
C8_NotFoundOnlyWhenAllFail ==
  ResolveDone
  => /\ ~last.raised
     /\ Method = "not-found"
        => /\ DetectionMissed
           /\ Len(last.log) = 4
           /\ \A i \in 2..4 : last.log[i].raised
           /\ {last.log[i].call : i \in 2..4}
                = {"ups", "royal-mail", "carrier-freight"}

C8_Witness ==
  /\ ResolveDone
  /\ Method = "not-found"
  /\ last.log[1].raised
  /\ last.reqs = 4

\* C9: detection comes first and a non-empty detection ends the resolution
\* ("auto-detected", first detected courier); otherwise the fallback carriers
\* are looked up in the order ups, royal-mail, carrier-freight, the first
\* lookup that succeeds ends the resolution ("fallback-<slug>") and no later
\* carrier is looked up.
C9_DetectionThenOrderedFallback ==
  ResolveDone
  => /\ last.log[1].call = "detect"
     /\ IF ~DetectionMissed
        THEN /\ Len(last.log) = 1
             /\ Method = "auto-detected"
             /\ Courier = last.log[1].first
        ELSE /\ Len(last.log) \in 2..4
             /\ \A i \in 2..Len(last.log) :
                  /\ last.log[i].call = FallbackOrder[i - 1]
                  /\ i < Len(last.log) => last.log[i].raised
             /\ IF ~last.log[Len(last.log)].raised
                THEN /\ Method = "fallback-" \o last.log[Len(last.log)].call
                     /\ Courier = last.log[Len(last.log)].call
                ELSE Len(last.log) = 4 /\ Method = "not-found"

C9_Witness ==
  /\ ResolveDone
  /\ Method = "fallback-royal-mail"
  /\ Len(last.log) = 3
  /\ last.log[1].n = 0
  /\ ~last.log[1].raised

LastCommand(name) == last.cmd # <<>> /\ last.cmd[1] = name

\* C11: constructing the client with a config.json that has no aftership
\* section, no apiKey or an empty apiKey raises the missing-config error and
\* creates no SDK client; a process without an SDK client has run no
\* operation, issued no request and touched neither the cache nor the remote
\* data.
C11_MissingKeyIsFatal ==
  /\ (last.kind = "construct" /\ last.call[2] # "key") =>
       /\ last.raised
       /\ last.error
            = "Missing required config in config.json: aftership.apiKey"
       /\ ~sdk
  /\ ~sdk => /\ last.kind \in {"none", "construct"}
             /\ last.reqs = 0 /\ last.requests = <<>>
             /\ cache = <<>> /\ ver = 0

C11_Witness ==
  last.kind = "construct" /\ last.call[2] = "empty-key" /\ last.raised /\ ~sdk

\* C12: a create-tracking command whose --custom-fields value is not valid
\* JSON ends in the "Invalid JSON for customFields" error, having issued no
\* request and left the cache as it was.
C12_InvalidJsonRejectedLocally ==
  [][(/\ last'.cmd # <<>>
      /\ last'.cmd[1] = "create-tracking"
      /\ last'.cmd[3] # Undefined
      /\ ~ValidJSON(last'.cmd[3]))
     => (/\ last'.raised
         /\ last'.error = "Invalid JSON for customFields"
         /\ last'.reqs = 0
         /\ cache' = cache
         /\ ver' = ver)]_vars

\* C16: a get-tracking command looks the tracking up by id when --id is
\* given, calls getTrackingByNumber only when both --tracking-number and
\* --slug are given, and is rejected when it has neither an id nor both of
\* them.
C16_GetTrackingDispatch ==
  LastCommand("get-tracking") =>
    LET id == last.cmd[2]
        trackingNumber == last.cmd[3]
        slug == last.cmd[4]
    IN /\ id # Undefined => last.op = "getTrackingById"
       /\ last.op = "getTrackingByNumber" =>
            trackingNumber # Undefined /\ slug # Undefined
       /\ (id = Undefined /\ (trackingNumber = Undefined \/ slug = Undefined))
            => last.kind = "command" /\ last.raised /\ last.reqs = 0

ActiveDone == last.kind = "read" /\ last.op = "getActiveShipments"

\* the order of the six active status tags
ActiveOrder ==
  <<"Pending", "InfoReceived", "InTransit", "OutForDelivery", "AttemptFail",
    "AvailableForPickup">>

RECURSIVE InTagOrder(_)
InTagOrder(n) ==
  IF n = 0 THEN <<>>
  ELSE LET HasTag(t) == t.tag = ActiveOrder[n]
       IN InTagOrder(n - 1) \o SelectSeq(batch, HasTag)

\* the positions of the first occurrence of each id
FirstPositions(all) ==
  {i \in 1..Len(all) : \A j \in 1..(i - 1) : all[j].id # all[i].id}

\* C15: the result of getActiveShipments has no two records with the same
\* id, and holds each id of the per-tag responses once, with the record of
\* its first occurrence in tag order and in the order of these first
\* occurrences.
C15_DeduplicatedByFirstOccurrence ==
  (ActiveDone /\ ~last.raised) =>
    LET all == InTagOrder(Len(ActiveOrder))
        first == FirstPositions(all)
        data == last.result.data
    IN /\ \A i, j \in 1..Len(data) : data[i].id = data[j].id => i = j
       /\ Len(data) = Cardinality(first)
       /\ \A i \in first :
            data[Cardinality({j \in first : j <= i})] = all[i]

C15_Witness ==
  /\ ActiveDone /\ ~last.raised
  /\ Len(last.result.data) = 2
  /\ Len(InTagOrder(Len(ActiveOrder))) = 3
  /\ last.result.data[1].id = InTagOrder(Len(ActiveOrder))[3].id

SearchDone == last.kind = "read" /\ last.op = "searchByOrderId"

\* the trackings whose order_id is exactly the order searched for
ExactMatches ==
  LET IsExact(t) == t.order_id = last.call[2]
  IN SelectSeq(batch, IsExact)

\* C19: a searchByOrderId call that is not answered from the cache asks by
\* the exact order_id first and issues the keyword request only when that
\* request returned no tracking; when the exact request returns a tracking
\* it is the only request and its trackings are returned unchanged.
C19_ExactFirstKeywordOnlyWhenEmpty ==
  (SearchDone /\ last.reqs > 0) =>
    /\ Len(last.requests) = last.reqs
    /\ last.requests[1] \in
         {Request("getTrackings", "order_id", r) : r \in BOOLEAN}
    /\ Len(last.requests) <= 2
    /\ Len(last.requests) = 2 =>
         /\ last.requests[2].arg = "keyword"
         /\ ~last.requests[1].raised
         /\ ExactMatches = <<>>
    /\ (ExactMatches # <<>> /\ ~last.requests[1].raised) =>
         /\ Len(last.requests) = 1
         /\ ~last.raised
         /\ last.result.data = ExactMatches

C19_Witness ==
  /\ SearchDone /\ last.reqs = 1 /\ ~last.raised
  /\ Len(last.result.data) = 2
  /\ \E i \in 1..Len(batch) : batch[i].order_id = "123"

DeliveriesDone ==
  last.kind = "read" /\ last.op = "getRecentDeliveries" /\ ~last.raised

\* the days of the call: the option, 7 when it was left out
DaysOfCall ==
  CASE last.call[3] = "0" -> 7
    [] last.call[3] = "1" -> 1

FetchedAt == IF last.reqs > 0 THEN last.at ELSE last.prior.at

AnswerFor(days) == findDelayedIn(cache, [days |-> days], TRUE).result.data

\* what a findDelayed({ days }) that has to fetch returns
FetchedFor(days) == findDelayedIn(<<>>, [days |-> days], TRUE).result.data

C13_KeysDeterministicAndInjective ==
  /\ Cardinality(DOMAIN cache) = Cardinality(DOMAIN hist)
  /\ (LastIsRead /\ ~last.raised) =>
       /\ last.reqs = 0 => last.prior.has /\ last.result = last.prior.value
       /\ last.prior.has => last.reqs = 0

\* a call answered from the cache while another call of the same operation
\* with other parameters has its own entry
C13_Witness ==
  /\ LastIsRead /\ last.reqs = 0 /\ last.prior.has
  /\ \E k1, k2 \in DOMAIN cache : k1 # k2 /\ k1[1] = k2[1]

RequestBound(op) ==
  CASE op = "searchByOrderId" -> 2
    [] op = "getActiveShipments" -> 6
    [] op = "resolveTracking" -> 4
    [] OTHER -> 1

Running == flight.phase \in {"ready", "awaiting"}

Finished == flight.phase = "done"

\* C21 as stated: every operation that is called ends; it never has two
\* requests in flight and issues at most 1 (single-call reads, mutations),
\* 2 (searchByOrderId), 4 (resolveTracking) requests, and exactly 6 when
\* getActiveShipments is not answered from the cache.
C21_BoundedSequentialRequests ==
  /\ [](/\ flight.inFlight <= 1
        /\ flight.issued <= RequestBound(flight.op)
        /\ (Finished /\ flight.op = "getActiveShipments" /\ flight.issued > 0)
             => flight.issued = 6)
  /\ (Running ~> Finished)

\* C21 amended: as stated, but getActiveShipments issues exactly 6 requests
\* when it is not answered from the cache and no request raises, and stops
\* at the request that raises otherwise.
C21_BoundedSequentialRequestsUnlessRaised ==
  /\ [](/\ flight.inFlight <= 1
        /\ flight.issued <= RequestBound(flight.op)
        /\ (Finished /\ flight.op = "getActiveShipments" /\ flight.issued > 0
             /\ flight.outcome = "returned")
             => flight.issued = 6
        /\ (Finished /\ flight.outcome = "raised")
             => flight.op \notin {"resolveTracking", "getApiStatus"})
  /\ (Running ~> Finished)

\* resolveTracking has ended after its detection and its three probes
C21_Witness ==
  Finished /\ flight.op = "resolveTracking" /\ flight.issued = 4

\* C22: a getApiStatus call never raises; it issues one getCouriers request
\* whatever the cache holds, returns valid with the number of couriers of
\* the response when the request returns and invalid with a message when it
\* raises, and leaves the cache as it was.
C22_ApiStatusNeverRaisesNorCaches ==
  [][last'.kind = "status" =>
       /\ ~last'.raised
       /\ last'.reqs = 1
       /\ last'.requests \in
            {<<Request("getCouriers", "", r)>> : r \in BOOLEAN}
       /\ ~last'.requests[1].raised =>
            /\ last'.result.data[1] = "valid"
            /\ last'.result.data[3] = ToString(last'.log[1].n)
       /\ last'.requests[1].raised =>
            /\ last'.result.data[1] = "invalid"
            /\ last'.result.data[2] # ""
       /\ cache' = cache]_vars

\* a failed status check while the couriers list is cached
C22_Witness ==
  /\ last.kind = "status" /\ last.requests[1].raised
  /\ last.result.data[1] = "invalid"
  /\ \E k \in DOMAIN cache : k[1] = "couriers" /\ now < cache[k].expiresAt

\* C23: a mutation whose remote request raises raises itself and leaves
\* every cache entry as it was; its invalidations run only when the request
\* returned.
C23_FailedMutationKeepsCache ==
  [][last'.kind = "mutate" =>
       /\ last'.requests \in {<<Request("sdk", "", r)>> : r \in BOOLEAN}
       /\ last'.raised = last'.requests[1].raised
       /\ last'.requests[1].raised => cache' = cache
       /\ cache' # cache => ~last'.raised]_vars

\* a mutation has failed while an entry it would have invalidated is cached
C23_Witness ==
  /\ last.kind = "mutate" /\ last.raised
  /\ \E k \in DOMAIN cache :
       /\ MatchesPrefix(k, "tracking") \/ MatchesPrefix(k, "order")
       /\ now < cache[k].expiresAt

ResolveMethods ==
  {"auto-detected", "not-found"}
    \cup {"fallback-" \o knownCarriers[i] : i \in DOMAIN knownCarriers}

\* C24: every result of resolveTracking has one of the five methods, a null
\* courier exactly when the method is "not-found", and with the method
\* "fallback-<slug>" the courier of that slug.
C24_ResultWellFormed ==
  ResolveDone
  => /\ Method \in ResolveMethods
     /\ Courier = "null" <=> Method = "not-found"
     /\ \A i \in DOMAIN knownCarriers :
          Method = "fallback-" \o knownCarriers[i]
            => Courier = knownCarriers[i]

\* the last fallback carrier has answered
C24_Witness ==
  /\ ResolveDone
  /\ Method = "fallback-carrier-freight"
  /\ Courier = "carrier-freight"
  /\ Len(last.log) = 4

\* the key belongs to a read of order X
ConcernsOrder(key, X) ==
  \E i \in 1..(Len(key) - 1) :
     key[i] \in {"orderId", "order_id"} /\ key[i + 1] = X

\* C25: invalidateByOrderId(X) removes the entry of searchByOrderId(X), so
\* that the next searchByOrderId(X) issues a request, and leaves every entry
\* that does not concern order X as it was: the entries of other order ids,
\* ids that contain X included, and the couriers, detect, exceptions,
\* delayed, active and delivered entries.
C25_InvalidatesOrderOnly ==
  [][/\ last'.kind = "invalidate"
        => /\ createCacheKey("order", << <<"orderId", last'.call[2]>> >>)
                \notin DOMAIN cache'
           /\ \A k \in DOMAIN cache :
                ~ConcernsOrder(k, last'.call[2])
                  => k \in DOMAIN cache' /\ cache'[k] = cache[k]
     /\ (/\ last.kind = "invalidate"
         /\ last'.kind = "read"
         /\ last'.call = <<"searchByOrderId", last.call[2]>>)
        => last'.reqs > 0]_vars
====
